---- MODULE Spec2Model ----
(***************************************************************************)
(* A model of Fp.py: the expansion of address blocks (generate_ips), the   *)
(* probe of one candidate (process_ip) and the per-operator pipeline of    *)
(* main (thread pool, as_completed loop, csv output).                      *)
(*                                                                         *)
(* Time is counted in ticks, TicksPerSec ticks to the second.  Texts are   *)
(* sequences of one-character strings.  Addresses are 32-bit integers,     *)
(* printed as dotted quads <<a, b, c, d>>; the model only draws addresses  *)
(* below 2^31 and prefixes of at least 32 - MaxHostBits bits.              *)
(***************************************************************************)
EXTENDS Integers, Sequences, FiniteSets, TLC

VARIABLES
    pc,               \* position of the main thread
    asns,             \* args.asn.split(','): the requested operators
    asnIdx,           \* index in asns of the operator being processed
    location_map,     \* create_location_map(load_locations())
    out_file,         \* name of the current operator's output file
    cidr_blocks,      \* fetch_cidr_blocks_from_asn(asn)
    cidrIdx,          \* index in cidr_blocks of the next block to expand
    ips,              \* generate_ips(cidr): addresses not yet submitted
    futures,          \* the list futures: one record per submitted probe
    workQueue,        \* executor._work_queue: indices of futures, FIFO
    threads,          \* len(executor._threads)
    idle_semaphore,   \* executor._idle_semaphore
    files,            \* the file system: name -> rows, or NoFile
    fileOpen,         \* csvfile is open (between open() and the with exit)
    acStarted,        \* as_completed has installed its waiter
    acFinished,       \* as_completed's list finished (next yield is its last)
    acPending,        \* as_completed's set pending
    waiterFinished,   \* waiter.finished_futures
    acSnapshot,       \* futures found finished when as_completed started
    completionOrder,  \* history: futures in the order their probes returned
    consumed,         \* history: futures in the order the loop consumed them
    env,              \* the network behaviour one probe observes (probe spec)
    outcomes,         \* history: what calls of the function under test gave
    completed,        \* history: the file name and rows of each file closed
    buffered          \* rows of the open file still in the buffer of csvfile

vars == <<pc, asns, asnIdx, location_map, out_file, cidr_blocks, cidrIdx, ips,
          futures, workQueue, threads, idle_semaphore, files, fileOpen, acStarted, acFinished,
          acPending, waiterFinished, acSnapshot, completionOrder, consumed,
          env, outcomes, completed, buffered>>

-----------------------------------------------------------------------------
(* Program constants                                                        *)

TIMEOUT == 1
MAX_DURATION == 2
DEFAULT_PORT == 443
AddrBits == 32

(* Bounds of the model                                                      *)

MaxWorkers == 2      \* max_workers of the pool (50 in main)
TicksPerSec == 2     \* resolution of the clock
MaxReqSecs == 2      \* longest validation request drawn, in seconds
MaxOffset == 15      \* block base addresses drawn: 10.0.0.0 + 0..MaxOffset
MaxHostBits == 3     \* shortest prefix drawn is AddrBits - MaxHostBits
BufferRows == 2      \* rows the write buffer of an open file holds

None == [kind |-> "None"]

\* a file of the file system: absent, or present with its rows
NoFile == [exists |-> FALSE, rows |-> <<>>]
File(rows) == [exists |-> TRUE, rows |-> rows]

-----------------------------------------------------------------------------
(* Texts                                                                    *)

Upper == {"A", "B", "C", "D", "E", "F", "G", "H", "I", "J", "K", "L", "M",
          "N", "O", "P", "Q", "R", "S", "T", "U", "V", "W", "X", "Y", "Z"}

\* "uag=Mozilla/5.0"
Marker == <<"u", "a", "g", "=", "M", "o", "z", "i", "l", "l", "a", "/", "5", ".", "0">>

\* "colo="
ColoKey == <<"c", "o", "l", "o", "=">>

\* sub in text
Contains(sub, text) ==
    \E p \in 1..(Len(text) - Len(sub) + 1) :
        SubSeq(text, p, p + Len(sub) - 1) = sub

\* the positions where r'colo=([A-Z]+)' matches
ColoMatches(text) ==
    {p \in 1..Len(text) :
        /\ p + Len(ColoKey) <= Len(text)
        /\ SubSeq(text, p, p + Len(ColoKey) - 1) = ColoKey
        /\ text[p + Len(ColoKey)] \in Upper}

\* the longest run of upper-case letters of text that starts at position p
RECURSIVE UpperRun(_, _)
UpperRun(text, p) ==
    IF p <= Len(text) /\ text[p] \in Upper
    THEN <<text[p]>> \o UpperRun(text, p + 1)
    ELSE <<>>

\* (mutant) the pattern is r'colo=([A-Z]*)'
ReSearchColoStar(text) ==
    LET ms == {p \in 1..Len(text) :
                /\ p + Len(ColoKey) - 1 <= Len(text)
                /\ SubSeq(text, p, p + Len(ColoKey) - 1) = ColoKey}
    IN IF ms = {} THEN None
       ELSE LET p == CHOOSE q \in ms : \A r \in ms : q <= r
            IN [kind |-> "match", group |-> UpperRun(text, p + Len(ColoKey))]

\* re.search(r'colo=([A-Z]+)', text): None, or group(1) of the leftmost match
ReSearchColo(text) ==
    LET ms == ColoMatches(text)
    IN IF ms = {} THEN None
       ELSE LET p == CHOOSE q \in ms : \A r \in ms : q <= r
            IN [kind |-> "match", group |-> UpperRun(text, p + Len(ColoKey))]

-----------------------------------------------------------------------------
(* Address blocks                                                           *)

Pow2(n) == 2 ^ n

\* str(ip) of an IPv4Address
IpStr(x) == <<x \div Pow2(24), (x \div Pow2(16)) % 256, (x \div Pow2(8)) % 256, x % 256>>

\* int(IPv4Address(s))
IpInt(q) == q[1] * Pow2(24) + q[2] * Pow2(16) + q[3] * Pow2(8) + q[4]

\* ip_network accepts the block specification
ValidCidr(cidr) == cidr.addr >= 0 /\ cidr.len \in 0..AddrBits

\* (mutant) the host bits of the specification are kept
NetworkAddressUnmasked(cidr) == cidr.addr

NetworkAddress(cidr) == cidr.addr - (cidr.addr % Pow2(AddrBits - cidr.len))

BroadcastAddress(cidr) == NetworkAddress(cidr) + Pow2(AddrBits - cidr.len) - 1

\* (mutant) every address of the block is listed
HostsAll(cidr) ==
    [i \in 1..(BroadcastAddress(cidr) - NetworkAddress(cidr) + 1) |-> NetworkAddress(cidr) + i - 1]

\* ip_network(cidr, strict=False).hosts(), as integers
Hosts(cidr) ==
    LET network == NetworkAddress(cidr)
        broadcast == BroadcastAddress(cidr)
    IN IF cidr.len = AddrBits - 1 THEN <<network, broadcast>>
       ELSE IF cidr.len = AddrBits THEN <<cidr.addr>>
       ELSE [i \in 1..(broadcast - network - 1) |-> network + i]

\* generate_ips(cidr): the list of printed addresses, or ValueError
generate_ips(cidr) ==
    IF ValidCidr(cidr)
    THEN [kind |-> "return", value |-> [i \in 1..Len(Hosts(cidr)) |-> IpStr(Hosts(cidr)[i])]]
    ELSE [kind |-> "raise", exc |-> "ValueError"]

-----------------------------------------------------------------------------
(* The location table                                                       *)

\* d.get(key, default) of a dict with string keys; <<>> is the empty dict
DictGet(d, key, default) == IF key \in DOMAIN d THEN d[key] ELSE default

\* create_location_map(locations): {loc['iata']: loc for loc in locations}
create_location_map(locations) ==
    [code \in {locations[i].iata : i \in 1..Len(locations)} |->
        LET last == CHOOSE i \in 1..Len(locations) :
                        /\ locations[i].iata = code
                        /\ \A j \in 1..Len(locations) : locations[j].iata = code => j <= i
        IN locations[last]]

\* (mutant) a code that is not in the table resolves to a record of "Unknown"
MapGetUnknown(map, code) ==
    IF code \in DOMAIN map THEN map[code]
    ELSE [region |-> "Unknown", city |-> "Unknown"]

\* location_map.get(data_center, {})
MapGet(map, code) == IF code \in DOMAIN map THEN map[code] ELSE <<>>

-----------------------------------------------------------------------------
(* The probe of one candidate                                               *)

\* f"{tcp_duration:.2f} ms": seconds, hundredths (rounded) and the unit
FormatLatency(ticks) ==
    LET cents == (ticks * 200 + TicksPerSec) \div (2 * TicksPerSec)
    IN <<cents \div 100, cents % 100, " ms">>

\* issubclass(exc, cls) for the exceptions the probe can meet
IsSubclass(exc, cls) ==
    \/ cls = exc
    \/ cls = "Exception"
    \/ cls = "OSError" /\ exc \in {"ConnectionRefusedError", "TimeoutError", "RequestException"}

\* (mutant) the elapsed time is counted from the start of the request
ResponseTimeOfRequest(e) == e.reqDur

\* time.time() - start after the request, in ticks
ResponseTime(e) == e.tcp + e.reqDur

\* (mutant) the signature is not looked for
SignatureOkAlways(text) == TRUE

\* "uag=Mozilla/5.0" in response.text
SignatureOk(text) == Contains(Marker, text)

\* (mutant) the request goes through the connection to the candidate, and a
\* candidate whose last octet is even answers with an empty body
ResponseTextViaCandidate(ip, e) == IF ip[4] % 2 = 1 THEN e.text ELSE <<>>

\* response.text of requests.get(REQUEST_URL, timeout=TIMEOUT): the answer of
\* the fixed endpoint, whatever the candidate
ResponseText(ip, e) == e.text

\* the body of the try statement of process_ip, under the network behaviour e
ProbeTry(ip, map, port, e) ==
    IF e.conn = "refused" THEN [kind |-> "raise", exc |-> "ConnectionRefusedError"]
    ELSE IF e.conn = "timeout" THEN [kind |-> "raise", exc |-> "TimeoutError"]
    ELSE IF e.req # "ok" THEN [kind |-> "raise", exc |-> "RequestException"]
    ELSE LET tcp_duration == e.tcp
             response_time == ResponseTime(e)
             match == ReSearchColo(ResponseText(ip, e))
         IN IF response_time > MAX_DURATION * TicksPerSec
            THEN [kind |-> "raise", exc |-> "Exception"]
            ELSE IF SignatureOk(ResponseText(ip, e)) /\ match # None
            THEN LET data_center == match.group
                     loc == MapGet(map, data_center)
                 IN [kind |-> "return",
                     value |-> [ip |-> ip,
                                port |-> port,
                                data_center |-> data_center,
                                region |-> DictGet(loc, "region", ""),
                                city |-> DictGet(loc, "city", ""),
                                latency |-> FormatLatency(tcp_duration)]]
            ELSE [kind |-> "fall"]

\* (mutant) the except clause names OSError
HandlerClassOSError == "OSError"

\* the class named by the except clause of process_ip
HandlerClass == "Exception"

\* process_ip(ip, location_map, port): what the call gives its caller
process_ip(ip, map, port, e) ==
    LET r == ProbeTry(ip, map, port, e)
    IN IF r.kind = "raise"
       THEN IF IsSubclass(r.exc, HandlerClass)
            THEN [kind |-> "return", value |-> None]
            ELSE r
       ELSE IF r.kind = "fall" THEN [kind |-> "return", value |-> None]
       ELSE r

\* the rows of a csv file
Header == <<"ip", "port", "data_center", "region", "city", "latency">>

\* the row writer.writerow(result) appends
Row(result) == <<result.ip, result.port, result.data_center, result.region,
                 result.city, result.latency>>

-----------------------------------------------------------------------------
(* What the model draws: command lines, registry and network behaviour      *)

BaseAddr == 10 * Pow2(24)      \* 10.0.0.0

\* args.asn.split(',')
AsnLists == {<<"1">>, <<"1", "2">>}

\* load_locations(): the table, or the request raises
LocationAnswers ==
    {[kind |-> "ok", locations |-> <<[iata |-> <<"A", "B", "C">>, city |-> "Testville", region |-> "T1"]>>],
     [kind |-> "error"]}

\* get_asn_info(asn): the data (with or without a name), or the request raises
AsnInfoAnswers ==
    {[kind |-> "ok", data |-> [name |-> "NetA"]],
     [kind |-> "ok", data |-> <<>>],
     [kind |-> "error"]}

BlockA == [addr |-> BaseAddr, len |-> 30]          \* 10.0.0.0/30
BlockB == [addr |-> BaseAddr + 9, len |-> 32]      \* 10.0.0.9/32
BadBlock == [addr |-> BaseAddr, len |-> 33]        \* 10.0.0.0/33

\* fetch_cidr_blocks_from_asn(asn): the prefixes, or the request raises
PrefixAnswers ==
    {[kind |-> "ok", prefixes |-> <<BlockA, BlockB>>],
     [kind |-> "ok", prefixes |-> <<BlockB>>],
     [kind |-> "ok", prefixes |-> <<BlockB, BadBlock, BlockA>>],
     [kind |-> "error"]}

FileNames == {<<"NetA", ".csv">>, <<"asn", ".csv">>}

\* a row left by an earlier run of the program
StaleRow == <<IpStr(BaseAddr + 77), DEFAULT_PORT, <<"O", "L", "D">>, "", "", FormatLatency(0)>>

\* the files found when the program starts
InitialFiles ==
    {[n \in FileNames |-> NoFile],
     [n \in FileNames |-> IF n = <<"NetA", ".csv">> THEN File(<<Header, StaleRow>>) ELSE NoFile]}

\* "uag=Mozilla/5.0\n", "uag=curl/8\n", nothing
UagLines ==
    {Marker \o <<"\n">>,
     <<"u", "a", "g", "=", "c", "u", "r", "l", "/", "8", "\n">>,
     <<>>}

\* "colo=ABC\n", "colo=XYZ\n", "colo=SIn\n", "colo=abc\n", "colo=\n", nothing
ColoLines ==
    {ColoKey \o <<"A", "B", "C", "\n">>,
     ColoKey \o <<"X", "Y", "Z", "\n">>,
     ColoKey \o <<"S", "I", "n", "\n">>,
     ColoKey \o <<"a", "b", "c", "\n">>,
     ColoKey \o <<"\n">>,
     <<>>}

\* response.text: "h=x\n", then a uag line and a colo line
Bodies == {<<"h", "=", "x", "\n">> \o u \o c : u \in UagLines, c \in ColoLines}

GoodBody == <<"h", "=", "x", "\n">> \o Marker \o <<"\n">> \o ColoKey \o <<"A", "B", "C", "\n">>

\* the network behaviours of one probe: the connection attempt (ok within the
\* timeout after tcp ticks, refused, timed out), then the request (ok after
\* reqDur ticks with a body, or raising)
NoEnv == [conn |-> "none"]

Envs ==
    {[conn |-> c] : c \in {"refused", "timeout"}}
    \cup {[conn |-> "ok", tcp |-> t, req |-> "error"] : t \in 0..(TIMEOUT * TicksPerSec)}
    \cup {[conn |-> "ok", tcp |-> t, req |-> "ok", reqDur |-> d, text |-> b] :
            t \in 0..(TIMEOUT * TicksPerSec),
            d \in 0..(MaxReqSecs * TicksPerSec),
            b \in Bodies}

\* the behaviours drawn in the pipeline: refused, a fast good answer, a good
\* answer after the ceiling
PipelineEnvs ==
    {[conn |-> "refused"],
     [conn |-> "ok", tcp |-> 1, req |-> "ok", reqDur |-> 1, text |-> GoodBody],
     [conn |-> "ok", tcp |-> TIMEOUT * TicksPerSec, req |-> "ok",
      reqDur |-> MaxReqSecs * TicksPerSec, text |-> GoodBody]}

-----------------------------------------------------------------------------
(* The pipeline of main                                                     *)

Running == {i \in 1..Len(futures) : futures[i].state = "RUNNING"}

Finished == {i \in 1..Len(futures) : futures[i].state = "FINISHED"}

\* the orders in which a set can be listed
Orders(S) ==
    {o \in [1..Cardinality(S) -> S] : \A a, b \in 1..Cardinality(S) : a # b => o[a] # o[b]}

\* (mutant) a thread is started for every submit that finds no idle thread
AdjustThreadCountUnbounded(n) == n + 1

\* ThreadPoolExecutor._adjust_thread_count: the number of threads after a
\* submit that found no idle thread
AdjustThreadCount(n) == IF n < MaxWorkers THEN n + 1 ELSE n

\* (mutant) the list is not reversed before the yields from its end
TakenOrderNotReversed(finished) ==
    [k \in 1..Len(finished) |-> finished[Len(finished) + 1 - k]]

\* "finished.reverse()", then the yields from the end of the list: the order
\* in which as_completed yields the futures of waiter.finished_futures
TakenOrder(finished) == finished

\* (mutant) a row is written for every outcome
WriteOutcomeAll(rows, result) ==
    Append(rows, IF result # None THEN Row(result) ELSE <<>>)

\* writer.writerow(result) under "if result:"
WriteOutcome(rows, result) == IF result # None THEN Append(rows, Row(result)) ELSE rows

\* (mutant) every file of the directory is removed
prepare_output_file_all(fs, name) == [n \in DOMAIN fs |-> NoFile]

\* prepare_output_file(filename): if os.path.exists(filename): os.remove(filename)
prepare_output_file(fs, name) ==
    IF fs[name].exists THEN [fs EXCEPT ![name] = NoFile] ELSE fs

\* csvfile of open(out_file, 'w', newline=''): a buffered text file that main
\* never flushes. A write that does not fit in the buffer sends the buffered
\* rows to the file system and stays in the buffer itself; n is the number
\* of rows in the buffer before the write, the value the number after it
BufferAfterWrite(n) == IF n + 1 > BufferRows THEN 1 ELSE n + 1

\* (mutant) the probe appends its record to the output file itself
FilesAfterProbeWrites(fs, name, result) ==
    IF fs[name].exists /\ result # None
    THEN [fs EXCEPT ![name] = File(Append(fs[name].rows, Row(result)))]
    ELSE fs

\* the files after a call of process_ip made while the file called name is
\* the output file: the function opens and writes no file, it prints its
\* record and returns it
FilesAfterProbe(fs, name, result) == fs

\* (mutant) as_completed stops when no finished future is waiting
LoopGoesOnWhileWaiting == waiterFinished # <<>>

\* "while pending": as_completed goes on waiting
LoopGoesOn == acPending # {}

Init ==
    /\ pc = "load"
    /\ asns \in AsnLists
    /\ asnIdx = 1
    /\ location_map = <<>>
    /\ out_file = <<>>
    /\ cidr_blocks = <<>>
    /\ cidrIdx = 1
    /\ ips = <<>>
    /\ futures = <<>>
    /\ workQueue = <<>>
    /\ threads = 0
    /\ idle_semaphore = 0
    /\ files \in InitialFiles
    /\ fileOpen = FALSE
    /\ acStarted = FALSE
    /\ acFinished = <<>>
    /\ acPending = {}
    /\ waiterFinished = <<>>
    /\ acSnapshot = {}
    /\ completionOrder = <<>>
    /\ consumed = <<>>
    /\ env = NoEnv
    /\ outcomes = <<>>
    /\ completed = <<>>
    /\ buffered = 0

\* locations = load_locations(); location_map = create_location_map(locations)
LoadLocations ==
    /\ pc = "load"
    /\ \E a \in LocationAnswers :
        IF a.kind = "error"
        THEN pc' = "failed_locations" /\ UNCHANGED location_map
        ELSE pc' = "lookup" /\ location_map' = create_location_map(a.locations)
    /\ UNCHANGED <<asns, asnIdx, out_file, cidr_blocks, cidrIdx, ips, futures,
                   workQueue, threads, idle_semaphore, files, fileOpen, acStarted,
                   acFinished, acPending, waiterFinished, acSnapshot,
                   completionOrder, consumed, env, outcomes,
                   completed, buffered>>

\* asn_info = get_asn_info(asn); out_file = f"{asn_info.get('name', 'asn')}.csv"
GetAsnInfo ==
    /\ pc = "lookup"
    /\ \E a \in AsnInfoAnswers :
        IF a.kind = "error"
        THEN pc' = "failed_asn_info" /\ UNCHANGED out_file
        ELSE pc' = "prepare" /\ out_file' = <<DictGet(a.data, "name", "asn"), ".csv">>
    /\ UNCHANGED <<asns, asnIdx, location_map, cidr_blocks, cidrIdx, ips, futures,
                   workQueue, threads, idle_semaphore, files, fileOpen, acStarted,
                   acFinished, acPending, waiterFinished, acSnapshot,
                   completionOrder, consumed, env, outcomes,
                   completed, buffered>>

\* prepare_output_file(out_file)
PrepareOutputFile ==
    /\ pc = "prepare"
    /\ files' = prepare_output_file(files, out_file)
    /\ pc' = "fetch"
    /\ UNCHANGED <<asns, asnIdx, location_map, out_file, cidr_blocks, cidrIdx, ips,
                   futures, workQueue, threads, idle_semaphore, fileOpen, acStarted,
                   acFinished, acPending, waiterFinished, acSnapshot,
                   completionOrder, consumed, env, outcomes,
                   completed, buffered>>

\* cidr_blocks = fetch_cidr_blocks_from_asn(asn), then the executor and
\* futures = [] of the with statement
FetchCidrBlocks ==
    /\ pc = "fetch"
    /\ \E a \in PrefixAnswers :
        IF a.kind = "error"
        THEN pc' = "failed_prefixes" /\ UNCHANGED <<cidr_blocks, cidrIdx>>
        ELSE pc' = "submit" /\ cidr_blocks' = a.prefixes /\ cidrIdx' = 1
    /\ UNCHANGED <<asns, asnIdx, location_map, out_file, ips, futures, workQueue,
                   threads, idle_semaphore, files, fileOpen, acStarted, acFinished,
                   acPending, waiterFinished, acSnapshot, completionOrder,
                   consumed, env, outcomes,
                   completed, buffered>>

\* for cidr in cidr_blocks: ips = generate_ips(cidr); a ValueError leaves the
\* with statement of the executor
ExpandBlock ==
    /\ pc = "submit"
    /\ ips = <<>>
    /\ cidrIdx <= Len(cidr_blocks)
    /\ LET r == generate_ips(cidr_blocks[cidrIdx])
       IN IF r.kind = "raise"
          THEN pc' = "abort" /\ UNCHANGED <<ips, cidrIdx>>
          ELSE pc' = pc /\ ips' = r.value /\ cidrIdx' = cidrIdx + 1
    /\ UNCHANGED <<asns, asnIdx, location_map, out_file, cidr_blocks, futures,
                   workQueue, threads, idle_semaphore, files, fileOpen, acStarted,
                   acFinished, acPending, waiterFinished, acSnapshot,
                   completionOrder, consumed, env, outcomes,
                   completed, buffered>>

\* executor.submit(process_ip, ip, location_map, DEFAULT_PORT) for the next ip
SubmitIp ==
    /\ pc = "submit"
    /\ ips # <<>>
    /\ futures' = Append(futures, [ip |-> Head(ips), state |-> "PENDING", result |-> None, exception |-> None])
    /\ workQueue' = Append(workQueue, Len(futures) + 1)
    /\ IF idle_semaphore > 0
       THEN idle_semaphore' = idle_semaphore - 1 /\ UNCHANGED threads
       ELSE threads' = AdjustThreadCount(threads) /\ UNCHANGED idle_semaphore
    /\ ips' = Tail(ips)
    /\ UNCHANGED <<pc, asns, asnIdx, location_map, out_file, cidr_blocks, cidrIdx,
                   files, fileOpen, acStarted, acFinished, acPending,
                   waiterFinished, acSnapshot, completionOrder, consumed, env,
                   outcomes,
                   completed, buffered>>

\* a worker thread takes the next work item and calls process_ip
StartProbe ==
    /\ workQueue # <<>>
    /\ Cardinality(Running) < threads
    /\ futures' = [futures EXCEPT ![Head(workQueue)].state = "RUNNING"]
    /\ workQueue' = Tail(workQueue)
    /\ UNCHANGED <<pc, asns, asnIdx, location_map, out_file, cidr_blocks, cidrIdx,
                   ips, threads, idle_semaphore, files, fileOpen, acStarted,
                   acFinished, acPending, waiterFinished, acSnapshot,
                   completionOrder, consumed, env, outcomes,
                   completed, buffered>>

\* process_ip returns (or raises) in its worker thread: the future is set,
\* its waiters are told, and the worker releases the idle semaphore
FinishProbe(i) ==
    /\ futures[i].state = "RUNNING"
    /\ \E e \in PipelineEnvs :
        LET r == process_ip(futures[i].ip, location_map, DEFAULT_PORT, e)
            result == IF r.kind = "return" THEN r.value ELSE None
        IN /\ futures' = [futures EXCEPT ![i] =
                             [ip |-> futures[i].ip,
                              state |-> "FINISHED",
                              result |-> result,
                              exception |-> IF r.kind = "raise" THEN r.exc ELSE None]]
           /\ files' = FilesAfterProbe(files, out_file, result)
    /\ waiterFinished' = IF acStarted THEN Append(waiterFinished, i) ELSE waiterFinished
    /\ idle_semaphore' = idle_semaphore + 1
    /\ completionOrder' = Append(completionOrder, i)
    /\ UNCHANGED <<pc, asns, asnIdx, location_map, out_file, cidr_blocks, cidrIdx,
                   ips, workQueue, threads, fileOpen, acStarted, acFinished,
                   acPending, acSnapshot, consumed, env, outcomes,
                   completed, buffered>>

\* with open(out_file, 'w', newline='') as csvfile: ... writer.writeheader()
OpenFile ==
    /\ pc = "submit"
    /\ ips = <<>>
    /\ cidrIdx > Len(cidr_blocks)
    /\ files' = [files EXCEPT ![out_file] = File(<<Header>>)]
    /\ fileOpen' = TRUE
    /\ buffered' = BufferAfterWrite(0)
    /\ pc' = "loop"
    /\ UNCHANGED <<asns, asnIdx, location_map, out_file, cidr_blocks, cidrIdx, ips,
                   futures, workQueue, threads, idle_semaphore, acStarted,
                   acFinished, acPending, waiterFinished, acSnapshot,
                   completionOrder, consumed, env, outcomes,
                   completed>>

\* the first next() of as_completed(futures): the futures already finished are
\* listed in the order of a set, the others are pending, the waiter is installed
AsCompletedStart ==
    /\ pc = "loop"
    /\ ~acStarted
    /\ \E o \in Orders(Finished) : acFinished' = o
    /\ acPending' = (1..Len(futures)) \ Finished
    /\ acSnapshot' = Finished
    /\ acStarted' = TRUE
    /\ waiterFinished' = <<>>
    /\ UNCHANGED <<pc, asns, asnIdx, location_map, out_file, cidr_blocks, cidrIdx,
                   ips, futures, workQueue, threads, idle_semaphore, files,
                   fileOpen, completionOrder, consumed, env, outcomes,
                   completed, buffered>>

\* as_completed yields the next future of its list; the body of the for loop:
\* result = future.result(); if result: writer.writerow(result).
\* future.result() raises what process_ip raised: the with statements are
\* left, main ends
Consume ==
    /\ pc = "loop"
    /\ acStarted
    /\ acFinished # <<>>
    /\ LET f == Head(acFinished)
           result == futures[f].result
       IN /\ acFinished' = Tail(acFinished)
          /\ acPending' = acPending \ {f}
          /\ IF futures[f].exception # None
             THEN /\ pc' = "abort"
                  /\ fileOpen' = FALSE
                  /\ buffered' = 0
                  /\ UNCHANGED <<files, consumed>>
             ELSE /\ files' = [files EXCEPT ![out_file] = File(WriteOutcome(files[out_file].rows, result))]
                  /\ buffered' = IF Len(files'[out_file].rows) > Len(files[out_file].rows)
                                  THEN BufferAfterWrite(buffered)
                                  ELSE buffered
                  /\ consumed' = Append(consumed, f)
                  /\ UNCHANGED <<pc, fileOpen>>
    /\ UNCHANGED <<asns, asnIdx, location_map, out_file, cidr_blocks, cidrIdx, ips,
                   futures, workQueue, threads, idle_semaphore, acStarted,
                   waiterFinished, acSnapshot, completionOrder, env, outcomes,
                   completed>>

\* as_completed wakes up on waiter.event and takes waiter.finished_futures
TakeFinished ==
    /\ pc = "loop"
    /\ acStarted
    /\ acFinished = <<>>
    /\ LoopGoesOn
    /\ waiterFinished # <<>>
    /\ acFinished' = TakenOrder(waiterFinished)
    /\ waiterFinished' = <<>>
    /\ UNCHANGED <<pc, asns, asnIdx, location_map, out_file, cidr_blocks, cidrIdx,
                   ips, futures, workQueue, threads, idle_semaphore, files,
                   fileOpen, acStarted, acPending, acSnapshot, completionOrder,
                   consumed, env, outcomes,
                   completed, buffered>>

\* as_completed is exhausted: the for loop ends and csvfile is closed
CloseFile ==
    /\ pc = "loop"
    /\ acStarted
    /\ acFinished = <<>>
    /\ ~LoopGoesOn
    /\ fileOpen' = FALSE
    /\ buffered' = 0
    /\ completed' = Append(completed, [file |-> out_file, rows |-> files[out_file].rows])
    /\ pc' = "closed"
    /\ UNCHANGED <<asns, asnIdx, location_map, out_file, cidr_blocks, cidrIdx, ips,
                   futures, workQueue, threads, idle_semaphore, files, acStarted,
                   acFinished, acPending, waiterFinished, acSnapshot,
                   completionOrder, consumed, env, outcomes>>

\* the with statement of the executor ends: shutdown(wait=True) returns when
\* every work item has run; then the next asn, with a new executor and list
ExecutorShutdown ==
    /\ pc = "closed"
    /\ workQueue = <<>>
    /\ Running = {}
    /\ IF asnIdx < Len(asns)
       THEN /\ pc' = "lookup"
            /\ asnIdx' = asnIdx + 1
       ELSE /\ pc' = "done"
            /\ UNCHANGED asnIdx
    /\ futures' = <<>>
    /\ threads' = 0
    /\ idle_semaphore' = 0
    /\ acStarted' = FALSE
    /\ acSnapshot' = {}
    /\ waiterFinished' = <<>>
    /\ completionOrder' = <<>>
    /\ consumed' = <<>>
    /\ cidr_blocks' = <<>>
    /\ cidrIdx' = 1
    /\ UNCHANGED <<asns, location_map, out_file, ips, workQueue, files, fileOpen,
                   acFinished, acPending, env, outcomes,
                   completed, buffered>>

\* an exception leaves the with statement of the executor: shutdown(wait=True)
\* returns when every work item has run, and main ends with the exception
AbortShutdown ==
    /\ pc = "abort"
    /\ workQueue = <<>>
    /\ Running = {}
    /\ pc' = "crashed"
    /\ UNCHANGED <<asns, asnIdx, location_map, out_file, cidr_blocks, cidrIdx, ips,
                   futures, workQueue, threads, idle_semaphore, files, fileOpen,
                   acStarted, acFinished, acPending, waiterFinished, acSnapshot,
                   completionOrder, consumed, env, outcomes,
                   completed, buffered>>

Next ==
    \/ LoadLocations
    \/ GetAsnInfo
    \/ PrepareOutputFile
    \/ FetchCidrBlocks
    \/ ExpandBlock
    \/ SubmitIp
    \/ StartProbe
    \/ \E i \in 1..Len(futures) : FinishProbe(i)
    \/ OpenFile
    \/ AsCompletedStart
    \/ Consume
    \/ TakeFinished
    \/ CloseFile
    \/ ExecutorShutdown
    \/ AbortShutdown

Spec == Init /\ [][Next]_vars

-----------------------------------------------------------------------------
(* generate_ips on its own: every block drawn is expanded once              *)

\* the block specifications drawn: 10.0.0.0 + 0..MaxOffset, with or without
\* host bits set, every prefix from AddrBits - MaxHostBits to /32, and /33
CidrInputs ==
    {[addr |-> BaseAddr + k, len |-> l] :
        k \in 0..MaxOffset, l \in (AddrBits - MaxHostBits)..(AddrBits + 1)}

InitIps ==
    /\ pc = "ips_call"
    /\ cidr_blocks \in {<<c>> : c \in CidrInputs}
    /\ asns = <<>>
    /\ asnIdx = 1
    /\ location_map = <<>>
    /\ out_file = <<>>
    /\ cidrIdx = 1
    /\ ips = <<>>
    /\ futures = <<>>
    /\ workQueue = <<>>
    /\ threads = 0
    /\ idle_semaphore = 0
    /\ files = [n \in FileNames |-> NoFile]
    /\ fileOpen = FALSE
    /\ acStarted = FALSE
    /\ acFinished = <<>>
    /\ acPending = {}
    /\ waiterFinished = <<>>
    /\ acSnapshot = {}
    /\ completionOrder = <<>>
    /\ consumed = <<>>
    /\ env = NoEnv
    /\ outcomes = <<>>
    /\ completed = <<>>
    /\ buffered = 0

\* ips = generate_ips(cidr)
IpsCall ==
    /\ pc = "ips_call"
    /\ LET r == generate_ips(cidr_blocks[cidrIdx])
       IN /\ outcomes' = Append(outcomes, r)
          /\ ips' = IF r.kind = "return" THEN r.value ELSE ips
    /\ pc' = "ips_done"
    /\ UNCHANGED <<asns, asnIdx, location_map, out_file, cidr_blocks, cidrIdx,
                   futures, workQueue, threads, idle_semaphore, files, fileOpen,
                   acStarted, acFinished, acPending, waiterFinished, acSnapshot,
                   completionOrder, consumed, env,
                   completed, buffered>>

NextIps == IpsCall

SpecIps == InitIps /\ [][NextIps]_vars

-----------------------------------------------------------------------------
(* process_ip on its own: one candidate, every network behaviour, and the   *)
(* body of the writer loop on its outcome                                   *)

ProbeFile == <<"asn", ".csv">>

InitProbe ==
    /\ pc = "probe_call"
    /\ env \in Envs
    /\ \E a \in LocationAnswers :
        a.kind = "ok" /\ location_map \in {create_location_map(a.locations), create_location_map(<<>>)}
    /\ \E k \in 1..2 :
        futures = <<[ip |-> IpStr(BaseAddr + k), state |-> "RUNNING",
                     result |-> None, exception |-> None]>>
    /\ asns = <<>>
    /\ asnIdx = 1
    /\ out_file = ProbeFile
    /\ cidr_blocks = <<>>
    /\ cidrIdx = 1
    /\ ips = <<>>
    /\ workQueue = <<>>
    /\ threads = 1
    /\ idle_semaphore = 0
    /\ files = [n \in FileNames |-> IF n = ProbeFile THEN File(<<Header>>) ELSE NoFile]
    /\ fileOpen = TRUE
    /\ acStarted = FALSE
    /\ acFinished = <<>>
    /\ acPending = {}
    /\ waiterFinished = <<>>
    /\ acSnapshot = {}
    /\ completionOrder = <<>>
    /\ consumed = <<>>
    /\ outcomes = <<>>
    /\ completed = <<>>
    /\ buffered = 0

\* process_ip(ip, location_map, DEFAULT_PORT) is called and ends
ProbeCall ==
    /\ pc = "probe_call"
    /\ LET r == process_ip(futures[1].ip, location_map, DEFAULT_PORT, env)
       IN /\ outcomes' = Append(outcomes, r)
          /\ futures' = [futures EXCEPT ![1] =
                            [ip |-> futures[1].ip,
                             state |-> "FINISHED",
                             result |-> IF r.kind = "return" THEN r.value ELSE None,
                             exception |-> IF r.kind = "raise" THEN r.exc ELSE None]]
          /\ pc' = IF r.kind = "return" THEN "probe_returned" ELSE "probe_raised"
    /\ UNCHANGED <<asns, asnIdx, location_map, out_file, cidr_blocks, cidrIdx, ips,
                   workQueue, threads, idle_semaphore, files, fileOpen, acStarted,
                   acFinished, acPending, waiterFinished, acSnapshot,
                   completionOrder, consumed, env,
                   completed, buffered>>

\* result = future.result(); if result: writer.writerow(result)
ProbeWrite ==
    /\ pc = "probe_returned"
    /\ files' = [files EXCEPT ![out_file] = File(WriteOutcome(files[out_file].rows, futures[1].result))]
    /\ consumed' = Append(consumed, 1)
    /\ pc' = "probe_written"
    /\ UNCHANGED <<asns, asnIdx, location_map, out_file, cidr_blocks, cidrIdx, ips,
                   futures, workQueue, threads, idle_semaphore, fileOpen, acStarted,
                   acFinished, acPending, waiterFinished, acSnapshot,
                   completionOrder, env, outcomes,
                   completed, buffered>>

NextProbe == ProbeCall \/ ProbeWrite

SpecProbe == InitProbe /\ [][NextProbe]_vars

-----------------------------------------------------------------------------
(* Properties                                                               *)

\* the number of positions of seq that hold x
Count(seq, x) == Cardinality({k \in DOMAIN seq : seq[k] = x})

Accepted == {i \in 1..Len(futures) : futures[i].result # None}

\* the candidates of a list of valid blocks, in submission order
RECURSIVE AllIps(_)
AllIps(blocks) ==
    IF blocks = <<>> THEN <<>>
    ELSE generate_ips(Head(blocks)).value \o AllIps(Tail(blocks))

\* C1: in every state the number of process_ip executions that have started
\* and not returned is at most the limit of the pool
C1_InFlightAtMostLimit == Cardinality(Running) <= MaxWorkers

\* C1 witness: every candidate has been submitted, the pool is full and
\* a candidate is still waiting in the queue
C1_Witness ==
    /\ pc = "loop"
    /\ Cardinality(Running) = MaxWorkers
    /\ workQueue # <<>>

\* C2: a call of process_ip gives exactly one outcome, a record or None, and
\* never raises; a refused or timed out connection, a failed request and an
\* elapsed time over the ceiling give None
C2_ExactlyOneOutcome ==
    pc # "probe_call" =>
        /\ pc # "probe_raised"
        /\ Len(outcomes) = 1
        /\ outcomes[1].kind = "return"
        /\ futures[1].exception = None
        /\ \/ outcomes[1].value = None
           \/ DOMAIN outcomes[1].value = {"ip", "port", "data_center", "region", "city", "latency"}
        /\ (env.conn # "ok" => outcomes[1].value = None)
        /\ (env.conn = "ok" /\ env.req # "ok" => outcomes[1].value = None)
        /\ (env.conn = "ok" /\ env.req = "ok" /\ env.tcp + env.reqDur > MAX_DURATION * TicksPerSec
                => outcomes[1].value = None)

\* C2 witness: the connection timed out and the call returned None
C2_Witness ==
    /\ pc = "probe_returned"
    /\ env.conn = "timeout"
    /\ outcomes = <<[kind |-> "return", value |-> None]>>

\* C3: when the output file of an operator has been closed, every candidate of
\* every block has been submitted, has produced one outcome and has been
\* consumed once; nothing is queued or running
C3_DrainedWhenClosed ==
    pc = "closed" =>
        /\ [i \in 1..Len(futures) |-> futures[i].ip] = AllIps(cidr_blocks)
        /\ workQueue = <<>>
        /\ Running = {}
        /\ Len(consumed) = Len(futures)
        /\ \A i \in 1..Len(futures) :
            /\ futures[i].state = "FINISHED"
            /\ futures[i].exception = None
            /\ Count(completionOrder, i) = 1
            /\ Count(consumed, i) = 1

\* C3 witness: a file is closed after three candidates, some finished before
\* the loop started and some after
C3_Witness ==
    /\ pc = "closed"
    /\ Len(futures) >= 3
    /\ acSnapshot # {}
    /\ acSnapshot # 1..Len(futures)

\* a row that is a record of six fields, not the header
IsRecordRow(r) == Len(r) = Len(Header) /\ r # Header

Pos(seq, x) == CHOOSE k \in DOMAIN seq : seq[k] = x

\* the future whose candidate a record row names
FutureOfRow(r) == CHOOSE i \in 1..Len(futures) : futures[i].ip = r[1]

\* the futures of the record rows of the current output file, in file order
RowFutures ==
    [k \in 1..(Len(files[out_file].rows) - 1) |-> FutureOfRow(files[out_file].rows[k + 1])]

\* the futures of seq are in the order in which their probes completed
InCompletionOrder(seq) ==
    \A k, l \in DOMAIN seq :
        k < l => Pos(completionOrder, seq[k]) < Pos(completionOrder, seq[l])

\* the futures of seq that completed before as_completed started come first,
\* and the others are in the order in which their probes completed
InCompletionOrderAfterStart(seq) ==
    \A k, l \in DOMAIN seq :
        k < l =>
            /\ seq[l] \in acSnapshot => seq[k] \in acSnapshot
            /\ seq[k] \notin acSnapshot /\ seq[l] \notin acSnapshot
                    => Pos(completionOrder, seq[k]) < Pos(completionOrder, seq[l])

\* C5 (as claimed): outcomes are consumed, and rows are written, in the order
\* in which the probes completed
C5_CompletionOrder ==
    pc \in {"loop", "closed"} /\ acStarted =>
        /\ InCompletionOrder(consumed)
        /\ InCompletionOrder(RowFutures)

\* C5 (amended): the probes that had completed when the consuming loop started
\* are consumed first, in any order; the probes that complete later are
\* consumed, and their rows written, in the order in which they completed
C5_CompletionOrderAfterStart ==
    pc \in {"loop", "closed"} /\ acStarted =>
        /\ InCompletionOrderAfterStart(consumed)
        /\ InCompletionOrderAfterStart(RowFutures)

\* C5 witness: a complete file with the row of a probe that completed before
\* the loop started and the rows of two that completed after
C5_Witness ==
    /\ pc = "closed"
    /\ Len(RowFutures) = 3
    /\ Cardinality(acSnapshot) = 1

\* the probe connected and its request was answered
Answered == env.conn = "ok" /\ env.req = "ok"

\* the call gave None, and the loop body wrote no row for it
RejectedNoRow ==
    /\ pc # "probe_call" => outcomes = <<[kind |-> "return", value |-> None]>>
    /\ pc = "probe_written" => files[out_file].rows = <<Header>>

\* C6: a probe that connects and whose elapsed time from the start of the
\* connection attempt to the end of the request is over MAX_DURATION gives
\* None and no row, whatever the body
C6_OverCeilingRejected ==
    Answered /\ env.tcp + env.reqDur > MAX_DURATION * TicksPerSec => RejectedNoRow

\* C6 witness: over the ceiling with a body that holds the marker and a code
C6_Witness ==
    /\ pc = "probe_written"
    /\ Answered
    /\ env.tcp + env.reqDur > MAX_DURATION * TicksPerSec
    /\ env.text = GoodBody
    /\ files[out_file].rows = <<Header>>

\* "h=x\n"
FirstLine == <<"h", "=", "x", "\n">>

\* the bodies drawn whose uag line is not the marker
BodiesWithoutMarker ==
    {FirstLine \o u \o c : u \in UagLines \ {Marker \o <<"\n">>}, c \in ColoLines}

\* C7: a probe whose body lacks the marker gives None and no row, for every
\* connection time and elapsed time, with or without a colo token
C7_NoMarkerRejected ==
    Answered /\ env.text \in BodiesWithoutMarker => RejectedNoRow

\* C7 witness: an immediate answer with colo=ABC and without the marker
C7_Witness ==
    /\ pc = "probe_written"
    /\ Answered
    /\ env.tcp = 0
    /\ env.reqDur = 0
    /\ env.text = FirstLine \o ColoKey \o <<"A", "B", "C", "\n">>
    /\ files[out_file].rows = <<Header>>

\* the bodies drawn with the marker and no code after "colo=": "colo=abc",
\* "colo=" and no colo line
BodiesWithMarkerNoCode ==
    {FirstLine \o Marker \o <<"\n">> \o c :
        c \in {ColoKey \o <<"a", "b", "c", "\n">>, ColoKey \o <<"\n">>, <<>>}}

\* C8: a probe whose body holds the marker and no extractable code gives None
\* and no row; an accepted record never has an empty location code
C8_NoCodeRejected ==
    /\ Answered /\ env.text \in BodiesWithMarkerNoCode => RejectedNoRow
    /\ pc # "probe_call" =>
        \A k \in DOMAIN outcomes :
            outcomes[k].kind = "return" /\ outcomes[k].value # None
                => /\ outcomes[k].value.data_center # <<>>
                   /\ \A j \in DOMAIN outcomes[k].value.data_center :
                        outcomes[k].value.data_center[j] \in Upper

\* C8 witness: a timely answer with the marker and "colo=" followed by no code
C8_Witness ==
    /\ pc = "probe_written"
    /\ Answered
    /\ env.tcp + env.reqDur <= MAX_DURATION * TicksPerSec
    /\ env.text = FirstLine \o Marker \o <<"\n">> \o ColoKey \o <<"\n">>
    /\ files[out_file].rows = <<Header>>

\* the block specification given to generate_ips, its size and the first and
\* last address of the block that contains it
TheCidr == cidr_blocks[1]
BlockSize == 2 ^ (AddrBits - TheCidr.len)
BlockFirst == (TheCidr.addr \div BlockSize) * BlockSize
BlockLast == BlockFirst + BlockSize - 1

\* the addresses of ips, as integers
IpsInt == [k \in DOMAIN ips |-> IpInt(ips[k])]

NoDuplicates(seq) == \A k, l \in DOMAIN seq : k # l => seq[k] # seq[l]

Expanded == pc = "ips_done" /\ TheCidr.len <= AddrBits

\* C9 (as claimed): for every valid block, /31 and /32 included, the list has
\* 2^(32 - prefix length) - 2 addresses and no duplicate
C9_LengthAllPrefixes ==
    Expanded =>
        /\ outcomes[1].kind = "return"
        /\ Len(ips) = BlockSize - 2
        /\ NoDuplicates(ips)

\* C9 (amended): the list has 2^(32 - prefix length) - 2 addresses for a
\* prefix length of at most 30, 2 addresses for a /31 and 1 for a /32, and
\* never a duplicate
C9_LengthByPrefix ==
    Expanded =>
        /\ outcomes[1].kind = "return"
        /\ Len(ips) = IF TheCidr.len <= AddrBits - 2 THEN BlockSize - 2
                      ELSE IF TheCidr.len = AddrBits - 1 THEN 2 ELSE 1
        /\ NoDuplicates(ips)

\* C9 witness: the shortest prefix drawn, expanded
C9_Witness ==
    /\ pc = "ips_done"
    /\ TheCidr.len = AddrBits - MaxHostBits
    /\ Len(ips) = 2 ^ MaxHostBits - 2

Ascending(seq) == \A k, l \in DOMAIN seq : k < l => seq[k] < seq[l]

\* C10 (as claimed): the addresses are in strictly ascending order, inside
\* the block that contains the specification, and neither the network nor the
\* broadcast address of that block
C10_HostsOfBlock ==
    Expanded =>
        /\ Ascending(IpsInt)
        /\ \A k \in DOMAIN ips :
            /\ IpsInt[k] \in BlockFirst..BlockLast
            /\ IpsInt[k] # BlockFirst
            /\ IpsInt[k] # BlockLast

\* C10 (amended): the addresses are in strictly ascending order and inside the
\* block that contains the specification; for a prefix length of at most 30
\* they are all the addresses of the block but its network and broadcast
\* addresses; a /31 gives its two addresses and a /32 its one address
C10_HostsOfBlockByPrefix ==
    Expanded =>
        /\ Ascending(IpsInt)
        /\ \A k \in DOMAIN ips : IpsInt[k] \in BlockFirst..BlockLast
        /\ {IpsInt[k] : k \in DOMAIN ips} =
              IF TheCidr.len <= AddrBits - 2
              THEN (BlockFirst + 1)..(BlockLast - 1)
              ELSE BlockFirst..BlockLast
        /\ \A k \in DOMAIN ips : IpStr(IpsInt[k]) = ips[k]

\* C10 witness: a /30 given with host bits set, expanded to the two hosts of
\* the block that contains it
C10_Witness ==
    /\ pc = "ips_done"
    /\ TheCidr.len = AddrBits - 2
    /\ TheCidr.addr # BlockFirst
    /\ IpsInt = <<BlockFirst + 1, BlockFirst + 2>>

-----------------------------------------------------------------------------
\* malformed blocks

\* the operator's list of blocks holds a malformed specification
HasMalformed == \E k \in DOMAIN cidr_blocks : ~ValidCidr(cidr_blocks[k])

ValidBlocks(blocks) == SelectSeq(blocks, ValidCidr)

Range(seq) == {seq[k] : k \in DOMAIN seq}

\* the run of the current operator is over: its file is closed, or main has
\* ended with an exception
OperatorRunOver == pc \in {"closed", "crashed"}

\* the candidate ip has been probed and, if accepted, its row is in rows
ProbedAndWritten(ip, rows) ==
    \E i \in 1..Len(futures) :
        /\ futures[i].ip = ip
        /\ futures[i].state = "FINISHED"
        /\ futures[i].result # None => Row(futures[i].result) \in Range(rows)

\* C11: when the run of an operator with a malformed block is over, the
\* operator's file exists and starts with the header, and every candidate of
\* every other block, before and after the malformed one, has been probed and
\* has its row in the file if it was accepted
C11_OnlyMalformedBlockSkipped ==
    (OperatorRunOver /\ HasMalformed) =>
        /\ files[out_file].exists
        /\ files[out_file].rows # <<>>
        /\ Head(files[out_file].rows) = Header
        /\ \A ip \in Range(AllIps(ValidBlocks(cidr_blocks))) :
              ProbedAndWritten(ip, files[out_file].rows)

-----------------------------------------------------------------------------
\* registry failures

\* get_asn_info(asn) or fetch_cidr_blocks_from_asn(asn) has raised in main
RegistryFailed == pc \in {"failed_asn_info", "failed_prefixes"}

\* the file completed under the name of completed[k] still has the rows it
\* was closed with
CompletedFileKept(k) ==
    /\ files[completed[k].file].exists
    /\ files[completed[k].file].rows = completed[k].rows

\* C12 (as stated): a failed registry lookup aborts the run of that operator
\* only: no probe has started for it, the files completed for the earlier
\* operators are unchanged, and the operators after it are still processed
C12_FatalForThatOperatorOnly ==
    RegistryFailed =>
        /\ futures = <<>>
        /\ \A k \in DOMAIN completed : CompletedFileKept(k)
        /\ (asnIdx < Len(asns) => ENABLED Next)

\* C12 (amended): a failed registry lookup ends the whole program: no probe
\* has started for that operator, no step follows, so the operators after it
\* are not processed; the files completed for earlier operators are unchanged
\* after a failed name lookup, and after a failed block lookup all of them
\* but the file with the name of the failed operator, which has been removed
C12_FatalForTheProgram ==
    RegistryFailed =>
        /\ futures = <<>>
        /\ ~ENABLED Next
        /\ \A k \in DOMAIN completed :
              IF pc = "failed_prefixes" /\ completed[k].file = out_file
              THEN ~files[out_file].exists
              ELSE CompletedFileKept(k)

\* C12 witness: the block lookup of the second operator has failed after the
\* first operator completed a file with a record under another name
C12_Witness ==
    /\ pc = "failed_prefixes"
    /\ Len(completed) = 1
    /\ completed[1].file # out_file
    /\ Len(completed[1].rows) > 1
    /\ CompletedFileKept(1)
    /\ asnIdx = 2

-----------------------------------------------------------------------------
\* outcomes waiting for the writer loop

\* the probes that have completed and whose outcome the for loop of main has
\* not yet taken from as_completed
CompletedNotConsumed == Finished \ Range(consumed)

\* C13: at every instant the number of outcomes completed and not yet
\* consumed by the writer loop is at most the limit of the pool, whatever
\* the number of candidates
C13_UnconsumedAtMostLimit == Cardinality(CompletedNotConsumed) <= MaxWorkers

-----------------------------------------------------------------------------
\* termination

\* the main thread and the worker threads are scheduled again and again, and
\* a connection attempt or request ends, by its timeout at the latest
SpecFair == Spec /\ WF_vars(Next)

\* every candidate of the operator's blocks has an outcome
AllProbed ==
    \A ip \in Range(AllIps(ValidBlocks(cidr_blocks))) :
        \E i \in 1..Len(futures) : futures[i].ip = ip /\ futures[i].state = "FINISHED"

\* C14: a run of an operator that has its list of blocks ends: every
\* candidate obtains an outcome and the output file is completed, whichever
\* candidates take until their timeout
C14_RunTerminates ==
    (pc = "submit") ~> (pc = "closed" /\ AllProbed)

\* the same for the operators whose blocks are all well formed
C14_RunOfValidBlocksTerminates ==
    (pc = "submit" /\ ~HasMalformed) ~> (pc = "closed" /\ AllProbed)

-----------------------------------------------------------------------------
\* the program run twice against a static network

\* the candidates of the operator, the same in both runs
TwiceBlocks == <<BlockA, BlockB>>

\* the elapsed time, in ticks, over which process_ip raises
Ceiling == MAX_DURATION * TicksPerSec

\* what differs from run to run: how long the connection attempt and the
\* request take. Two prompt answers; a connection as slow as the timeout
\* allows with a request just under the ceiling, over it together; a request
\* over the ceiling
TwiceTimings ==
    {[tcp |-> 0, reqDur |-> 1],
     [tcp |-> 1, reqDur |-> 1],
     [tcp |-> TIMEOUT * TicksPerSec, reqDur |-> Ceiling - 1],
     [tcp |-> 0, reqDur |-> Ceiling + 1]}

\* what is static: which candidates accept the connection, and the body the
\* validation endpoint answers with
TwiceWorlds ==
    {[conns |-> c, text |-> b] :
        c \in [Range(AllIps(TwiceBlocks)) -> {"ok", "refused"}],
        b \in {GoodBody, FirstLine}}

\* the number of the run in progress
RunNumber == Len(completed) + 1

InitTwice ==
    /\ pc = "twice_run"
    /\ env \in TwiceWorlds
    /\ \E a \in LocationAnswers :
        a.kind = "ok" /\ location_map = create_location_map(a.locations)
    /\ futures = [k \in DOMAIN AllIps(TwiceBlocks) |->
                    [ip |-> AllIps(TwiceBlocks)[k], state |-> "PENDING",
                     result |-> None, exception |-> None]]
    /\ asns = <<"1">>
    /\ asnIdx = 1
    /\ out_file = ProbeFile
    /\ cidr_blocks = TwiceBlocks
    /\ cidrIdx = Len(TwiceBlocks) + 1
    /\ ips = <<>>
    /\ workQueue = <<>>
    /\ threads = 0
    /\ idle_semaphore = 0
    /\ files = [n \in FileNames |-> IF n = ProbeFile THEN File(<<Header>>) ELSE NoFile]
    /\ fileOpen = TRUE
    /\ acStarted = FALSE
    /\ acFinished = <<>>
    /\ acPending = {}
    /\ waiterFinished = <<>>
    /\ acSnapshot = {}
    /\ completionOrder = <<>>
    /\ consumed = <<>>
    /\ outcomes = {}
    /\ completed = <<>>
    /\ buffered = 0

\* the probe of one candidate, taken in any order, ends and the loop of main
\* writes its outcome: process_ip under the static world and the timing of
\* this run
TwiceProbe(i) ==
    /\ pc = "twice_run"
    /\ futures[i].state = "PENDING"
    /\ \E t \in TwiceTimings :
        LET ip == futures[i].ip
            e == [conn |-> env.conns[ip], tcp |-> t.tcp, req |-> "ok",
                  reqDur |-> t.reqDur, text |-> env.text]
            r == process_ip(ip, location_map, DEFAULT_PORT, e)
            result == IF r.kind = "return" THEN r.value ELSE None
        IN /\ futures' = [futures EXCEPT ![i] =
                            [ip |-> ip, state |-> "FINISHED", result |-> result,
                             exception |-> IF r.kind = "raise" THEN r.exc ELSE None]]
           /\ files' = [files EXCEPT ![out_file] = File(WriteOutcome(files[out_file].rows, result))]
           /\ outcomes' = outcomes \cup {[run |-> RunNumber, ip |-> ip, timing |-> t]}
    /\ UNCHANGED <<pc, asns, asnIdx, location_map, out_file, cidr_blocks, cidrIdx,
                   ips, workQueue, threads, idle_semaphore, fileOpen, acStarted,
                   acFinished, acPending, waiterFinished, acSnapshot,
                   completionOrder, consumed, env, completed, buffered>>

\* every outcome has been consumed: the file is closed and main ends
TwiceClose ==
    /\ pc = "twice_run"
    /\ \A i \in 1..Len(futures) : futures[i].state = "FINISHED"
    /\ completed' = Append(completed, [file |-> out_file, rows |-> files[out_file].rows])
    /\ fileOpen' = FALSE
    /\ pc' = "twice_closed"
    /\ UNCHANGED <<asns, asnIdx, location_map, out_file, cidr_blocks, cidrIdx, ips,
                   futures, workQueue, threads, idle_semaphore, files, acStarted,
                   acFinished, acPending, waiterFinished, acSnapshot,
                   completionOrder, consumed, env, outcomes, buffered>>

\* the program is started again with the same arguments: the file of the
\* first run is removed, the same candidates are submitted, the file is
\* opened and the header written
TwiceRerun ==
    /\ pc = "twice_closed"
    /\ Len(completed) = 1
    /\ files' = [prepare_output_file(files, out_file) EXCEPT ![out_file] = File(<<Header>>)]
    /\ fileOpen' = TRUE
    /\ futures' = [k \in DOMAIN futures |->
                     [ip |-> futures[k].ip, state |-> "PENDING",
                      result |-> None, exception |-> None]]
    /\ pc' = "twice_run"
    /\ UNCHANGED <<asns, asnIdx, location_map, out_file, cidr_blocks, cidrIdx, ips,
                   workQueue, threads, idle_semaphore, acStarted,
                   acFinished, acPending, waiterFinished, acSnapshot,
                   completionOrder, consumed, env, outcomes, completed, buffered>>

NextTwice == (\E i \in 1..Len(futures) : TwiceProbe(i)) \/ TwiceClose \/ TwiceRerun

SpecTwice == InitTwice /\ [][NextTwice]_vars

\* the records of a file, each without its latency
RecordSet(rows) ==
    {SubSeq(rows[k], 1, Len(Header) - 1) : k \in {j \in DOMAIN rows : IsRecordRow(rows[j])}}

BothRunsOver == pc = "twice_closed" /\ Len(completed) = 2

\* the timing the probe of ip had in run n
TimingOf(n, ip) == (CHOOSE o \in outcomes : o.run = n /\ o.ip = ip).timing

\* the elapsed time of the timing t is over the ceiling
OverCeiling(t) == t.tcp + t.reqDur > Ceiling

\* C15 (as stated): two runs on the same candidates, the same connection
\* behaviour and the same validation response give files with the same set of
\* records, latency and order apart
C15_SameRecordSets ==
    BothRunsOver => RecordSet(completed[1].rows) = RecordSet(completed[2].rows)

\* C15 (amended): they do when every candidate's elapsed time is on the same
\* side of the ceiling in both runs
C15_SameRecordSetsSameSideOfCeiling ==
    (BothRunsOver /\ \A ip \in Range(AllIps(TwiceBlocks)) :
                        OverCeiling(TimingOf(1, ip)) = OverCeiling(TimingOf(2, ip)))
        => RecordSet(completed[1].rows) = RecordSet(completed[2].rows)

\* C15 witness: both runs are over, a candidate was prompt in one run and
\* near the ceiling in the other and is in both files with different
\* latencies, and the rows of the two files are in different orders
C15_Witness ==
    /\ BothRunsOver
    /\ \A ip \in Range(AllIps(TwiceBlocks)) :
          OverCeiling(TimingOf(1, ip)) = OverCeiling(TimingOf(2, ip))
    /\ \E ip \in Range(AllIps(TwiceBlocks)) : TimingOf(1, ip) # TimingOf(2, ip)
    /\ Len(completed[1].rows) = Len(AllIps(TwiceBlocks)) + 1
    /\ completed[1].rows # completed[2].rows
    /\ \E k \in DOMAIN completed[1].rows : completed[1].rows[k][1] # completed[2].rows[k][1]

-----------------------------------------------------------------------------
\* one file per operator

\* C16: when every requested operator has been processed, the file completed
\* for each operator is still there with the rows it was closed with, and no
\* two operators have the same file
C16_EachOperatorKeepsItsFile ==
    pc = "done" =>
        /\ Len(completed) = Len(asns)
        /\ \A k \in DOMAIN completed : CompletedFileKept(k)
        /\ \A k, l \in DOMAIN completed : k # l => completed[k].file # completed[l].file

-----------------------------------------------------------------------------
\* location codes that are not in the table

\* the bodies drawn with the marker and a code after "colo=", each with the
\* code: "colo=ABC", "colo=XYZ" and "colo=SIn" (whose code is "SI")
BodiesWithCode ==
    {[text |-> FirstLine \o Marker \o <<"\n">> \o ColoKey \o <<"A", "B", "C", "\n">>,
      code |-> <<"A", "B", "C">>],
     [text |-> FirstLine \o Marker \o <<"\n">> \o ColoKey \o <<"X", "Y", "Z", "\n">>,
      code |-> <<"X", "Y", "Z">>],
     [text |-> FirstLine \o Marker \o <<"\n">> \o ColoKey \o <<"S", "I", "n", "\n">>,
      code |-> <<"S", "I">>]}

\* the record of the candidate with the code, no region and no city
RecordWithoutLocation(code) ==
    [ip |-> futures[1].ip, port |-> DEFAULT_PORT, data_center |-> code,
     region |-> "", city |-> "", latency |-> FormatLatency(env.tcp)]

\* C17: a probe that connects, answers within the ceiling with the marker and
\* a code that is not in the location table returns a record, with that code
\* and an empty region and city, and the record is written
C17_UnknownCodeAccepted ==
    \A b \in BodiesWithCode :
        (/\ Answered
         /\ env.tcp + env.reqDur <= Ceiling
         /\ env.text = b.text
         /\ b.code \notin DOMAIN location_map)
        => /\ pc # "probe_call" =>
                outcomes = <<[kind |-> "return", value |-> RecordWithoutLocation(b.code)]>>
           /\ pc = "probe_written" =>
                files[out_file].rows = <<Header, Row(RecordWithoutLocation(b.code))>>

\* C17 witness: the table has ABC only, the answer comes at the ceiling with
\* colo=XYZ, and the row of XYZ is in the file
C17_Witness ==
    /\ pc = "probe_written"
    /\ Answered
    /\ env.tcp + env.reqDur = Ceiling
    /\ env.text = FirstLine \o Marker \o <<"\n">> \o ColoKey \o <<"X", "Y", "Z", "\n">>
    /\ DOMAIN location_map = {<<"A", "B", "C">>}
    /\ Len(files[out_file].rows) = 2
    /\ files[out_file].rows[2][3] = <<"X", "Y", "Z">>
    /\ files[out_file].rows[2][4] = ""
    /\ files[out_file].rows[2][5] = ""

-----------------------------------------------------------------------------
\* durability of the rows

\* the rows the file system has: the rows written, but for those still in
\* the buffer of csvfile
RowsOnDisk ==
    SubSeq(files[out_file].rows, 1, Len(files[out_file].rows) - buffered)

\* C18: at every point of the loop of main, the row of every accepted
\* outcome the loop has consumed is in the file on disk, so that ending the
\* process there loses no consumed record
C18_ConsumedRecordsOnDisk ==
    pc = "loop" =>
        \A k \in DOMAIN consumed :
            futures[consumed[k]].result # None
                => Row(futures[consumed[k]].result) \in Range(RowsOnDisk)

-----------------------------------------------------------------------------
\* who changes the location table and the files

\* a step of a worker thread: a call of process_ip starts, or ends
ProbeStep == StartProbe \/ \E i \in 1..Len(futures) : FinishProbe(i)

\* a step of the main thread that removes, opens or writes the output file
FileStep == PrepareOutputFile \/ OpenFile \/ Consume

\* C19: a step of a probe, whatever its outcome, changes neither the
\* location table nor a file; a file changes only by a step of the main
\* thread (the removal, the opening with the header, the loop body), one at
\* a time, and the location table only when it is loaded
C19_ProbesChangeNoSharedState ==
    [][/\ ProbeStep => (files' = files /\ location_map' = location_map)
       /\ files' # files => FileStep
       /\ location_map' # location_map => LoadLocations]_vars

\* C19 witness: while the loop of main waits with the file open, a probe has
\* ended with a record, another has ended with None, and the file still
\* holds the header only
C19_Witness ==
    /\ pc = "loop"
    /\ acStarted
    /\ fileOpen
    /\ \E i, j \in DOMAIN waiterFinished :
          /\ futures[waiterFinished[i]].result # None
          /\ futures[waiterFinished[j]].result = None
    /\ files[out_file].rows = <<Header>>

-----------------------------------------------------------------------------
\* the candidate and the outcome

\* the candidates compared with the one probed
OtherCandidates == {IpStr(BaseAddr + k) : k \in {1, 2, 9}}

\* what a call gave, without the address, the port and the latency
OutcomeKind(r) ==
    IF r.kind # "return" THEN <<"raised">>
    ELSE IF r.value = None THEN <<"Rejected">>
    ELSE <<"Accepted", r.value.data_center, r.value.region, r.value.city>>

\* C20: when the probe of a candidate has connected and had its answer within
\* the ceiling, the probe of any candidate that connects and has the same
\* answer within the ceiling, after any connection time and request time,
\* gives the same: both Accepted with the same code, region and city, or
\* both Rejected
C20_OutcomeIndependentOfCandidate ==
    (pc # "probe_call" /\ Answered /\ env.tcp + env.reqDur <= Ceiling) =>
        \A ip \in OtherCandidates :
            \A t \in 0..(TIMEOUT * TicksPerSec), d \in 0..(MaxReqSecs * TicksPerSec) :
                t + d <= Ceiling =>
                    OutcomeKind(process_ip(ip, location_map, DEFAULT_PORT,
                                           [env EXCEPT !.tcp = t, !.reqDur = d]))
                        = OutcomeKind(outcomes[1])

\* C20 witness: the candidate 10.0.0.1 has been accepted with the code ABC
\* and its region and city, and its row is written
C20_Witness ==
    /\ pc = "probe_written"
    /\ Answered
    /\ env.tcp + env.reqDur <= Ceiling
    /\ env.text = GoodBody
    /\ futures[1].ip = IpStr(BaseAddr + 1)
    /\ OutcomeKind(outcomes[1]) = <<"Accepted", <<"A", "B", "C">>, "T1", "Testville">>
    /\ Len(files[out_file].rows) = 2

====
